---- MODULE Spec2Model ----
(***************************************************************************)
(* LottoCheck (src/src/index.js, the version at lines 248-854): a          *)
(* CloudFlare Worker that fetches the Mega Millions and Powerball          *)
(* jackpots, compares them with the amounts the previous run stored in KV, *)
(* mails a notification on an upward threshold crossing and stores the     *)
(* current amounts.                                                        *)
(*                                                                         *)
(* Numbers.  Amounts are JavaScript doubles; the model keeps the integer   *)
(* ones (in millions of dollars) and the value NaN.  Comparisons go        *)
(* through JsLt / JsGe / JsGt, which are false as soon as one side is NaN. *)
(*                                                                         *)
(* Runs.  A scheduled() handler is cut at its await points: the two feed   *)
(* fetches complete one by one, then the two state reads complete one by   *)
(* one, then lines 567-659 run to completion in one step (Process).  The   *)
(* sends and the KV puts that Process starts are background tasks that     *)
(* complete later, possibly after later runs have read the store.  Two     *)
(* handlers never interleave in the model: the store only sees the order   *)
(* of reads and of completed puts, and every such order of two overlapping *)
(* handlers is produced by running one handler first and leaving its puts  *)
(* pending.  Runs are not numbered, so that their number is unbounded: a   *)
(* pending put records whether the latest run that reached line 567        *)
(* started it (young) or an earlier one (stale).  The puts of the latest   *)
(* run may always be in flight when the next run starts; MaxStalePuts      *)
(* bounds the stale ones.  A send in flight has no effect on any later     *)
(* step, and a run starts once the sends before it have completed.  A put  *)
(* that completes while the fetches are in flight or between the second    *)
(* read and line 567 is seen by the same reads as one that completes just  *)
(* before the run starts or just after it returns, so puts complete while  *)
(* no run is active or while its reads are in flight.                      *)
(***************************************************************************)
EXTENDS Integers, Sequences, FiniteSets, TLC

\* ------------------------------------------------------------------ bounds
MaxStalePuts == 0   \* puts of runs before the latest one that may be in flight when a run starts

\* --------------------------------------------------------------- constants
DEFAULT_THRESHOLD_MILLIONS == 1500
BILLION_IN_MILLIONS == 1000
DOLLARS_PER_MILLION == 1000000

MM == "Mega Millions"
PB == "Powerball"
Feeds == {MM, PB}

\* --------------------------------------------------------- JavaScript values
NaN == -999999999              \* the double NaN
JsonNull == -999999998         \* null: JSON null in a stored record
Infinity == 999999999          \* the double +Infinity
Undefined == "undefined"       \* a missing property, read as a string
EmptyMap == [x \in {} |-> 0]   \* a function with empty domain

IsNaN(x) == x = NaN
\* typeof x === 'number', for the values of the model
IsNumber(x) == x # JsonNull
JsLt(a, b) == ~IsNaN(a) /\ ~IsNaN(b) /\ a < b
JsGe(a, b) == ~IsNaN(a) /\ ~IsNaN(b) /\ a >= b
JsGt(a, b) == ~IsNaN(a) /\ ~IsNaN(b) /\ a > b
\* x / d on doubles, for the integer quotients the model keeps
JsDiv(x, d) == IF IsNaN(x) THEN NaN ELSE IF x = Infinity THEN Infinity
               ELSE x \div d
JsMul(x, m) == IF IsNaN(x) THEN NaN ELSE IF x = Infinity THEN Infinity
               ELSE x * m
\* a value that is truthy and not a string, where a string is expected
NotAString == "[object Object]"
\* truthiness of a string-or-undefined property (!x, x && y)
TruthyStr(s) == s # Undefined /\ s # ""
\* truthiness of a number-or-null JSON value (x || 0)
TruthyNum(x) == x # 0 /\ x # NaN /\ x # JsonNull

\* ---------------------------------------------------------------- parseFloat
\* A text is a sequence of one-character strings; String(undefined) is the
\* one-token text <<"undefined">>, which parseFloat reads as NaN.
Digits == {"0", "1", "2", "3", "4", "5", "6", "7", "8", "9"}
DigitVal(c) ==
    CASE c = "0" -> 0 [] c = "1" -> 1 [] c = "2" -> 2 [] c = "3" -> 3
      [] c = "4" -> 4 [] c = "5" -> 5 [] c = "6" -> 6 [] c = "7" -> 7
      [] c = "8" -> 8 [] c = "9" -> 9

RECURSIVE DigitRun(_, _)
\* number of consecutive digits of s starting at position i
DigitRun(s, i) ==
    IF i <= Len(s) /\ s[i] \in Digits THEN 1 + DigitRun(s, i + 1) ELSE 0

RECURSIVE DigitsValue(_, _, _)
\* value of the n digits of s starting at position i
DigitsValue(s, i, n) ==
    IF n = 0 THEN 0
    ELSE DigitsValue(s, i, n - 1) * 10 + DigitVal(s[i + n - 1])

RECURSIVE Pow10(_)
Pow10(k) == IF k = 0 THEN 1 ELSE 10 * Pow10(k - 1)

\* parseFloat(s) * 10^k: the longest prefix [+-]? digits* ( . digits* )? with
\* at least one digit, NaN when there is none.  Fraction digits beyond the
\* k-th are dropped, so the inputs of the model carry at most k of them.
\* SignLen is the length of the sign, FractionRun the number of fraction
\* digits when position dotAt holds the point; n and m count the whole and
\* the fraction digits of the numeral that starts at position start.
SignLen(s) == IF Len(s) > 0 /\ s[1] \in {"-", "+"} THEN 1 ELSE 0

FractionRun(s, dotAt) ==
    IF dotAt <= Len(s) /\ s[dotAt] = "." THEN DigitRun(s, dotAt + 1) ELSE 0

Magnitude(s, k, start, n, used) ==
    DigitsValue(s, start, n) * Pow10(k)
        + DigitsValue(s, start + n + 1, used) * Pow10(k - used)

ParseNumeral(s, k, start, n, m) ==
    IF n = 0 /\ m = 0 THEN NaN
    ELSE IF s[1] = "-" THEN 0 - Magnitude(s, k, start, n, IF m < k THEN m ELSE k)
    ELSE Magnitude(s, k, start, n, IF m < k THEN m ELSE k)

ParseDigits(s, k, start, n) ==
    ParseNumeral(s, k, start, n, FractionRun(s, start + n))

\* The text "Infinity" is the one-token text <<"Infinity">>.
ParseFloatScaled(s, k) ==
    IF s = <<"Infinity">> THEN Infinity
    ELSE ParseDigits(s, k, 1 + SignLen(s), DigitRun(s, 1 + SignLen(s)))

ParseFloat(s) == ParseFloatScaled(s, 0)

RECURSIVE StripCommas(_)
\* s.replace(/,/g, '')
StripCommas(s) ==
    IF s = <<>> THEN <<>>
    ELSE IF Head(s) = "," THEN StripCommas(Tail(s))
    ELSE <<Head(s)>> \o StripCommas(Tail(s))

\* ------------------------------------------------------- formatJackpotDisplay
DigitChar(d) ==
    CASE d = 0 -> "0" [] d = 1 -> "1" [] d = 2 -> "2" [] d = 3 -> "3"
      [] d = 4 -> "4" [] d = 5 -> "5" [] d = 6 -> "6" [] d = 7 -> "7"
      [] d = 8 -> "8" [] d = 9 -> "9"

RECURSIVE NatText(_)
NatText(n) == IF n < 10 THEN <<DigitChar(n)>>
              ELSE NatText(n \div 10) \o <<DigitChar(n % 10)>>

\* x.toFixed(0) of an integer or NaN
ToFixed0(x) ==
    IF IsNaN(x) THEN <<"NaN">>
    ELSE IF x = Infinity THEN <<"Infinity">>
    ELSE IF x < 0 THEN <<"-">> \o NatText(0 - x)
    ELSE NatText(x)

\* (x / 1000).toFixed(2) for x >= 1000; exact for the multiples of 10, where
\* no rounding happens
BillionsToFixed2(x) ==
    IF x = Infinity THEN <<"Infinity">>
    ELSE LET hundredths == (x + 5) \div 10
         IN NatText(hundredths \div 100)
              \o <<".", DigitChar((hundredths % 100) \div 10),
                    DigitChar(hundredths % 10)>>

\* Variant: the boundary 1000 is rendered in millions.
FormatAboveBillion(amountInMillions) ==
    IF JsGt(amountInMillions, BILLION_IN_MILLIONS)
    THEN <<"$">> \o BillionsToFixed2(amountInMillions) \o <<" ", "Billion">>
    ELSE <<"$">> \o ToFixed0(amountInMillions) \o <<" ", "Million">>

\* A display string is a text: "$1.70 Billion" is
\* <<"$", "1", ".", "7", "0", " ", "Billion">>.
FormatJackpotDisplay(amountInMillions) ==
    IF JsGe(amountInMillions, BILLION_IN_MILLIONS)
    THEN <<"$">> \o BillionsToFixed2(amountInMillions) \o <<" ", "Billion">>
    ELSE <<"$">> \o ToFixed0(amountInMillions) \o <<" ", "Million">>

\* ------------------------------------------------------------- feed adapters
\* A FeedResult; error = Undefined when the adapter set no error field.
FeedResult(lottery, jackpot, jackpotAmount, nextDrawing, error) ==
    [lottery |-> lottery, jackpot |-> jackpot, jackpotAmount |-> jackpotAmount,
     nextDrawing |-> nextDrawing, error |-> error]

\* nextDrawingDate.toLocaleDateString('en-US', ...) of new Date(d)
DateLabel(d) ==
    IF d = "2025-12-26T00:00:00" THEN "Fri, Dec 26, 2025" ELSE "Invalid Date"

\* The Mega Millions response, as the adapter sees it:
\*   kind = "reject": fetch, response.json(), JSON.parse or a property read
\*                    threw an Error with the given message;
\*   kind = "data":   NextPrizePool is Number(data.Jackpot.NextPrizePool), in
\*                    dollars, NaN for a missing or non-numeric field.
MegaResponse(kind, message, pool, date) ==
    [kind |-> kind, message |-> message, NextPrizePool |-> pool,
     NextDrawingDate |-> date]

\* Variant: the error result keeps an amount instead of 0.
CheckMegaErrorWithAmount(response) ==
    IF response.kind = "reject"
    THEN FeedResult(MM, <<"Error">>, 1600, "Error", response.message)
    ELSE LET jackpotInMillions == JsDiv(response.NextPrizePool, DOLLARS_PER_MILLION)
         IN FeedResult(MM, FormatJackpotDisplay(jackpotInMillions),
                       jackpotInMillions,
                       DateLabel(response.NextDrawingDate), Undefined)

checkMegaMillions(response) ==
    IF response.kind = "reject"
    THEN FeedResult(MM, <<"Error">>, 0, "Error", response.message)
    ELSE LET jackpotInMillions == JsDiv(response.NextPrizePool, DOLLARS_PER_MILLION)
         IN FeedResult(MM, FormatJackpotDisplay(jackpotInMillions),
                       jackpotInMillions,
                       DateLabel(response.NextDrawingDate), Undefined)

\* The Powerball response: kind = "reject" as above; kind = "html" with
\* match = <<>> when no jackpot pattern matches and <<[num, unit]>> for the
\* groups of the first matching pattern; drawing is the trimmed group of the
\* first matching date pattern, Undefined (null) when none matches.
PowerballResponse(kind, message, match, drawing) ==
    [kind |-> kind, message |-> message, match |-> match, drawing |-> drawing]

ToLowerCase(unit) == IF unit = "Billion" THEN "billion"
                     ELSE IF unit = "Million" THEN "million" ELSE unit

\* line 801: the amount in millions of the figure num with the unit
PowerballAmount(num, unit) ==
    IF ToLowerCase(unit) = "billion"
    THEN ParseFloatScaled(StripCommas(num), 3)     \* amount * 1000
    ELSE ParseFloat(StripCommas(num))

\* Variant: a figure that does not parse is reported as an error, with the
\* display and the amount left as computed.
PowerballResultFlaggingNaN(match, nextDrawing) ==
    IF match = <<>>
    THEN FeedResult(PB, <<"Not found">>, 0, nextDrawing,
                    "Failed to parse jackpot from HTML")
    ELSE FeedResult(PB, <<"$">> \o match[1].num \o <<" ", match[1].unit>>,
                    PowerballAmount(match[1].num, match[1].unit),
                    nextDrawing,
                    IF IsNaN(PowerballAmount(match[1].num, match[1].unit))
                    THEN "Failed to parse jackpot from HTML" ELSE Undefined)

\* lines 827-843: the result for the groups matched and the drawing label
PowerballResult(match, nextDrawing) ==
    IF match = <<>>
    THEN FeedResult(PB, <<"Not found">>, 0, nextDrawing,
                    "Failed to parse jackpot from HTML")
    ELSE FeedResult(PB, <<"$">> \o match[1].num \o <<" ", match[1].unit>>,
                    PowerballAmount(match[1].num, match[1].unit),
                    nextDrawing, Undefined)

checkPowerball(response) ==
    IF response.kind = "reject"
    THEN FeedResult(PB, <<"Error">>, 0, "Error", response.message)
    ELSE PowerballResult(response.match,
                         IF TruthyStr(response.drawing)
                         THEN response.drawing ELSE "Not found")

\* ------------------------------------------------------------ state store
\* JSON.stringify({jackpotAmount, lastChecked}): NaN is written as null.  The
\* timestamp is never read back and is left out.
JsonStringify(jackpotAmount) ==
    [jackpotAmount |-> IF IsNaN(jackpotAmount) \/ jackpotAmount = Infinity
                       THEN JsonNull ELSE jackpotAmount]

\* JSON.parse of a stored text: <<>> when it throws a SyntaxError, else <<the
\* object>>.  A stored text is written as the record of the fields it
\* holds; a text that is not JSON as [malformed |-> TRUE].
JsonParse(stored) ==
    IF "malformed" \in DOMAIN stored THEN <<>> ELSE <<stored>>

\* Variant: Number(data.jackpotAmount) in place of data.jackpotAmount || 0.
StoredAmountAsNumber(parsed) ==
    IF parsed = <<>> THEN 0
    ELSE IF "jackpotAmount" \notin DOMAIN parsed[1] THEN NaN
    ELSE IF parsed[1].jackpotAmount = JsonNull THEN 0
    ELSE parsed[1].jackpotAmount

\* Variant: Math.max(0, data.jackpotAmount || 0).
StoredAmountClamped(parsed) ==
    IF parsed = <<>> THEN 0
    ELSE IF "jackpotAmount" \notin DOMAIN parsed[1] THEN 0
    ELSE IF parsed[1].jackpotAmount = JsonNull THEN 0
    ELSE IF parsed[1].jackpotAmount > 0 THEN parsed[1].jackpotAmount
    ELSE 0

\* lines 280-287: the amount of the parsed record, 0 from the catch
StoredAmount(parsed) ==
    IF parsed = <<>> THEN 0
    ELSE IF "jackpotAmount" \notin DOMAIN parsed[1] THEN 0
    ELSE IF TruthyNum(parsed[1].jackpotAmount) THEN parsed[1].jackpotAmount
    ELSE 0

\* Variant: a read that fails yields NaN.
GetPreviousFailingAsNaN(kvBound, store, lotteryName, getRejects) ==
    IF ~kvBound THEN 0
    ELSE IF getRejects THEN NaN
    ELSE IF lotteryName \notin DOMAIN store THEN 0
    ELSE StoredAmount(JsonParse(store[lotteryName]))

\* getPreviousJackpot: kvBound is !!kv, getRejects says that kv.get threw,
\* store is the content of the namespace (a missing key reads as null).
getPreviousJackpot(kvBound, store, lotteryName, getRejects) ==
    IF ~kvBound THEN 0
    ELSE IF getRejects THEN 0
    ELSE IF lotteryName \notin DOMAIN store THEN 0
    ELSE StoredAmount(JsonParse(store[lotteryName]))

\* storePreviousJackpot up to its await: the set of kv.put requests it issues
storePreviousJackpot(kvBound, lotteryName, jackpotAmount) ==
    IF ~kvBound THEN {}
    ELSE {[lottery |-> lotteryName, value |-> JsonStringify(jackpotAmount)]}

\* Variant: the await of kv.put stands outside the try block.
PutSettledUncaught(kvBound, putRejects) ==
    [rejects |-> kvBound /\ putRejects, logged |-> FALSE,
     written |-> kvBound /\ ~putRejects]

\* storePreviousJackpot from its await on (lines 309-314): whether the
\* promise it returned rejects, whether the catch logged, whether the key
\* took the value
PutSettled(kvBound, putRejects) ==
    [rejects |-> FALSE, logged |-> kvBound /\ putRejects,
     written |-> kvBound /\ ~putRejects]

\* one whole call of storePreviousJackpot
StoreCall(kvBound, lotteryName, jackpotAmount, putRejects) ==
    [puts |-> storePreviousJackpot(kvBound, lotteryName, jackpotAmount),
     settled |-> PutSettled(kvBound, putRejects)]

\* the store after one whole call of storePreviousJackpot: the key holds the
\* text of the put when the put went through
Written(store, stored) ==
    IF stored.puts = {} \/ ~stored.settled.written THEN store
    ELSE LET request == CHOOSE r \in stored.puts : TRUE
         IN  (request.lottery :> request.value) @@ store

\* storePreviousJackpot(kv, name, a), then storePreviousJackpot(kv, other, b)
\* whose put may fail, then getPreviousJackpot(kv, name)
StoreThenGet(store, name, a, other, b, putRejects) ==
    getPreviousJackpot(TRUE,
        Written(Written(store, StoreCall(TRUE, name, a, FALSE)),
                StoreCall(TRUE, other, b, putRejects)),
        name, FALSE)

\* -------------------------------------------------------- crossing detector
Crossing(threw, crossed, previousAmount, currentAmount, threshold) ==
    [threw |-> threw, crossed |-> crossed, previousAmount |-> previousAmount,
     currentAmount |-> currentAmount, threshold |-> threshold]

\* lines 334-342: typeof x !== 'number' || isNaN(x), for one argument
NotValidNumber(x) == ~IsNumber(x) \/ IsNaN(x)

\* Variant: the current amount must be strictly above the threshold.
DetectStrictCurrent(previousAmount, currentAmount, thresholdMillions) ==
    IF \/ NotValidNumber(previousAmount) \/ NotValidNumber(currentAmount)
       \/ NotValidNumber(thresholdMillions)
    THEN Crossing(TRUE, FALSE, previousAmount, currentAmount, thresholdMillions)
    ELSE Crossing(FALSE,
                  JsLt(previousAmount, thresholdMillions)
                      /\ JsGt(currentAmount, thresholdMillions),
                  previousAmount, currentAmount, thresholdMillions)

\* Variant: a move through the threshold in either direction is a crossing.
DetectEitherDirection(previousAmount, currentAmount, thresholdMillions) ==
    IF \/ NotValidNumber(previousAmount) \/ NotValidNumber(currentAmount)
       \/ NotValidNumber(thresholdMillions)
    THEN Crossing(TRUE, FALSE, previousAmount, currentAmount, thresholdMillions)
    ELSE Crossing(FALSE,
                  JsLt(previousAmount, thresholdMillions)
                      # JsLt(currentAmount, thresholdMillions),
                  previousAmount, currentAmount, thresholdMillions)

detectThresholdCrossing(previousAmount, currentAmount, thresholdMillions) ==
    IF \/ NotValidNumber(previousAmount) \/ NotValidNumber(currentAmount)
       \/ NotValidNumber(thresholdMillions)
    THEN Crossing(TRUE, FALSE, previousAmount, currentAmount, thresholdMillions)
    ELSE Crossing(FALSE,
                  JsLt(previousAmount, thresholdMillions)
                      /\ JsGe(currentAmount, thresholdMillions),
                  previousAmount, currentAmount, thresholdMillions)

\* ------------------------------------------------------------------ notifier
\* The message, reduced to the five values the template interpolates.
buildNotificationEmail(lotteryName, previousAmount, currentAmount, threshold, nextDrawing) ==
    IF \/ ~TruthyStr(lotteryName) \/ lotteryName = NotAString
       \/ NotValidNumber(previousAmount) \/ NotValidNumber(currentAmount)
       \/ NotValidNumber(threshold)
       \/ ~TruthyStr(nextDrawing) \/ nextDrawing = NotAString
    THEN [threw |-> TRUE, lotteryName |-> lotteryName, previous |-> <<>>,
          current |-> <<>>, threshold |-> <<>>, nextDrawing |-> nextDrawing]
    ELSE [threw |-> FALSE, lotteryName |-> lotteryName,
          previous |-> FormatJackpotDisplay(previousAmount),
          current |-> FormatJackpotDisplay(currentAmount),
          threshold |-> FormatJackpotDisplay(threshold),
          nextDrawing |-> nextDrawing]

\* the bindings argument when a function is called without one (undefined
\* or null)
NoEnv == [undefined |-> TRUE]

\* env?.name: undefined when env is null or undefined, or has no such
\* property
OptionalProperty(e, name) == IF name \in DOMAIN e THEN e[name] ELSE Undefined

\* Variant: one address is enough.
IsEmailConfiguredEither(e) ==
    TruthyStr(OptionalProperty(e, "FROM_EMAIL"))
        \/ TruthyStr(OptionalProperty(e, "TO_EMAIL"))

isEmailConfigured(e) ==
    TruthyStr(OptionalProperty(e, "FROM_EMAIL"))
        /\ TruthyStr(OptionalProperty(e, "TO_EMAIL"))

\* ------------------------------------------------------- threshold evaluator
\* Variant: zero is accepted as a threshold.
ThresholdOrZero(parsed) ==
    IF ~IsNaN(parsed) /\ JsGe(parsed, 0) THEN parsed
    ELSE DEFAULT_THRESHOLD_MILLIONS

\* Variant: the parsed value is used as it is.
ThresholdAsParsed(parsed) == parsed

\* lines 690-692 of checkThresholds
ThresholdOrDefault(parsed) ==
    IF ~IsNaN(parsed) /\ JsGt(parsed, 0) THEN parsed
    ELSE DEFAULT_THRESHOLD_MILLIONS

\* lines 689-692
ResolveThreshold(e) == ThresholdOrDefault(ParseFloat(e.JACKPOT_THRESHOLD))

\* Variant: the error field is not consulted.
ExceedsIgnoringError(result, thresholdMillions) ==
    JsGe(result.jackpotAmount, thresholdMillions)

\* Variant: an amount equal to the threshold does not exceed it.
ExceedsStrictly(result, thresholdMillions) ==
    ~TruthyStr(result.error) /\ JsGt(result.jackpotAmount, thresholdMillions)

\* lines 695-700: the per-feed test (jackpotAmount is a number in the model)
Exceeds(result, thresholdMillions) ==
    ~TruthyStr(result.error) /\ JsGe(result.jackpotAmount, thresholdMillions)

Annotate(result, exceeds) ==
    [lottery |-> result.lottery, jackpot |-> result.jackpot,
     jackpotAmount |-> result.jackpotAmount, nextDrawing |-> result.nextDrawing,
     error |-> result.error, exceedsThreshold |-> exceeds]

\* lines 703-705
ExceedingLotteries(megaExceeds, powerballExceeds) ==
    (IF megaExceeds THEN <<MM>> ELSE <<>>)
        \o (IF powerballExceeds THEN <<PB>> ELSE <<>>)

\* lines 716-721
ThresholdInfo(thresholdMillions, exceedingLotteries) ==
    [amount |-> thresholdMillions,
     display |-> FormatJackpotDisplay(thresholdMillions),
     exceeded |-> Len(exceedingLotteries) > 0,
     exceedingLotteries |-> exceedingLotteries]

\* lines 707-722
ThresholdResults(megaMillions, powerball, thresholdMillions, megaExceeds, powerballExceeds) ==
    [megaMillions |-> Annotate(megaMillions, megaExceeds),
     powerball |-> Annotate(powerball, powerballExceeds),
     threshold |-> ThresholdInfo(thresholdMillions,
                       ExceedingLotteries(megaExceeds, powerballExceeds))]

\* lines 694-722, for the resolved threshold
CheckAgainst(megaMillions, powerball, thresholdMillions) ==
    ThresholdResults(megaMillions, powerball, thresholdMillions,
                     Exceeds(megaMillions, thresholdMillions),
                     Exceeds(powerball, thresholdMillions))

checkThresholds(megaMillions, powerball, e) ==
    CheckAgainst(megaMillions, powerball, ResolveThreshold(e))

\* ------------------------------------------------------- fetch(), 516-542
Response(status, body) == [status |-> status, body |-> body]

\* JSON.stringify of an annotated FeedResult: NaN is written as null; an
\* error that is Undefined stands for a field left out
JsonFeed(result) ==
    [result EXCEPT !.jackpotAmount = IF IsNaN(@) THEN JsonNull ELSE @]

\* lines 527-530, as serialised at line 532
FetchBody(thresholdResults) ==
    [timestamp |-> "toISOString",
     megaMillions |-> JsonFeed(thresholdResults.megaMillions),
     powerball |-> JsonFeed(thresholdResults.powerball),
     threshold |-> thresholdResults.threshold]

\* Variant: a request for which no feed could be read is answered with 500.
FetchRespondFailingFeeds(megaMillions, powerball, e) ==
    IF "JACKPOT_THRESHOLD" \notin DOMAIN e
    THEN Response(500, [error |-> "Cannot read properties of undefined"])
    ELSE IF TruthyStr(megaMillions.error) /\ TruthyStr(powerball.error)
    THEN Response(500, [error |-> "All feeds failed"])
    ELSE Response(200, FetchBody(checkThresholds(megaMillions, powerball, e)))

\* Lines 524-541 for the two FeedResults.  The adapters do not reject; the
\* statement that can throw is the read of env.JACKPOT_THRESHOLD at line
\* 689, a TypeError when env is undefined.
FetchRespond(megaMillions, powerball, e) ==
    IF "JACKPOT_THRESHOLD" \notin DOMAIN e
    THEN Response(500, [error |-> "Cannot read properties of undefined"])
    ELSE Response(200, FetchBody(checkThresholds(megaMillions, powerball, e)))

\* the fetch handler, for what the two sources answer
fetch(megaResponse, powerballResponse, e) ==
    FetchRespond(checkMegaMillions(megaResponse),
                 checkPowerball(powerballResponse), e)

\* -------------------------------------------------------------- sendEmail
\* What the transport call of sendEmail can do: "ok" is an OK response,
\* "status" a non-OK response, "reject" a fetch that rejected with an Error,
\* "rejectText" one that rejected with a string (its .message is undefined)
\* and "rejectNull" one that rejected with null or undefined.
Transports == {"ok", "status", "reject", "rejectText", "rejectNull"}

\* The promise of sendEmail: rejects is TRUE when it rejects, else success
\* and error are the fields of the object it resolves to.  Reading
\* error.message at line 469 throws a TypeError when error is null or
\* undefined, and nothing catches it.
sendEmail(transport) ==
    CASE transport = "ok" ->
           [rejects |-> FALSE, success |-> TRUE, error |-> Undefined]
      [] transport = "status" ->
           [rejects |-> FALSE, success |-> FALSE, error |-> "MailChannels API error"]
      [] transport = "reject" ->
           [rejects |-> FALSE, success |-> FALSE,
            error |-> "Email send failed: Network timeout"]
      [] transport = "rejectText" ->
           [rejects |-> FALSE, success |-> FALSE,
            error |-> "Email send failed: undefined"]
      [] transport = "rejectNull" ->
           [rejects |-> TRUE, success |-> FALSE, error |-> Undefined]

\* ------------------------------------------------------ scheduled, 567-659
\* Step 5 for one feed: <<>> when nothing is sent, else the built message.
NotificationFor(lottery, crossing, result, previous, thresholdMillions, e) ==
    IF crossing.crossed /\ ~TruthyStr(result.error) /\ isEmailConfigured(e)
    THEN <<buildNotificationEmail(lottery, previous, result.jackpotAmount,
                                  thresholdMillions, result.nextDrawing)>>
    ELSE <<>>

LogEntry(kind, lottery) == [kind |-> kind, lottery |-> lottery]

\* The synchronous part of scheduled() after the state reads, as a value:
\*   aborted    an exception reached the catch at line 661
\*   res        the result of checkThresholds
\*   crossing   the crossing records computed before that
\*   sends      the messages handed to sendEmail, in order
\*   tracked    whether ctx.waitUntil was reached for the sends
\*   stores     the amounts passed to storePreviousJackpot
\*   puts       the kv.put requests issued
\*   log        the lines logged
\* The catch at line 661: what the run did before the exception.
Caught(res, crossing, sends) ==
    [aborted |-> TRUE, res |-> res, crossing |-> crossing, sends |-> sends,
     tracked |-> FALSE, stores |-> EmptyMap, puts |-> {},
     log |-> {LogEntry("Error checking jackpots", "")}]

\* Variant: the sends and the writes are started without ctx.waitUntil.
StoreAndLogUntracked(feedResults, e, res, crossing, sends) ==
    [aborted |-> FALSE, res |-> res, crossing |-> crossing, sends |-> sends,
     tracked |-> FALSE,
     stores |-> [f \in Feeds |-> feedResults[f].jackpotAmount],
     puts |-> UNION {storePreviousJackpot(e.LOTTERY_STATE, f,
                         feedResults[f].jackpotAmount) : f \in Feeds},
     log |-> {LogEntry("THRESHOLD CROSSED", f) :
                  f \in {g \in Feeds : crossing[g].crossed}}
             \cup (IF res.threshold.exceeded
                   THEN {LogEntry("ALERT", "")} ELSE {})]

\* Lines 622-659, reached when no message failed to build.
StoreAndLog(feedResults, e, res, crossing, sends) ==
    [aborted |-> FALSE, res |-> res, crossing |-> crossing, sends |-> sends,
     tracked |-> TRUE,
     stores |-> [f \in Feeds |-> feedResults[f].jackpotAmount],
     puts |-> UNION {storePreviousJackpot(e.LOTTERY_STATE, f,
                         feedResults[f].jackpotAmount) : f \in Feeds},
     log |-> {LogEntry("THRESHOLD CROSSED", f) :
                  f \in {g \in Feeds : crossing[g].crossed}}
             \cup (IF res.threshold.exceeded
                   THEN {LogEntry("ALERT", "")} ELSE {})]

\* Lines 583-620 after both messages were attempted, Mega Millions first.
Notified(feedResults, e, res, crossing, megaMail, powerballMail) ==
    IF megaMail # <<>> /\ megaMail[1].threw
    THEN Caught(res, crossing, <<>>)
    ELSE IF powerballMail # <<>> /\ powerballMail[1].threw
    THEN Caught(res, crossing, megaMail)
    ELSE StoreAndLog(feedResults, e, res, crossing, megaMail \o powerballMail)

\* Variant: the Mega Millions message is handed to sendEmail before the
\* Powerball crossing is computed.
DetectedAfterMegaSend(feedResults, previous, e, res, megaCrossing, powerballCrossing) ==
    IF megaCrossing.threw THEN Caught(res, EmptyMap, <<>>)
    ELSE IF powerballCrossing.threw
    THEN Caught(res, MM :> megaCrossing,
                NotificationFor(MM, megaCrossing, feedResults[MM],
                                previous[MM], res.threshold.amount, e))
    ELSE Notified(feedResults, e, res,
                  (MM :> megaCrossing) @@ (PB :> powerballCrossing),
                  NotificationFor(MM, megaCrossing, feedResults[MM],
                                  previous[MM], res.threshold.amount, e),
                  NotificationFor(PB, powerballCrossing, feedResults[PB],
                                  previous[PB], res.threshold.amount, e))

\* Lines 583-659 for the two crossing records.
Detected(feedResults, previous, e, res, megaCrossing, powerballCrossing) ==
    IF megaCrossing.threw THEN Caught(res, EmptyMap, <<>>)
    ELSE IF powerballCrossing.threw
    THEN Caught(res, MM :> megaCrossing, <<>>)
    ELSE Notified(feedResults, e, res,
                  (MM :> megaCrossing) @@ (PB :> powerballCrossing),
                  NotificationFor(MM, megaCrossing, feedResults[MM],
                                  previous[MM], res.threshold.amount, e),
                  NotificationFor(PB, powerballCrossing, feedResults[PB],
                                  previous[PB], res.threshold.amount, e))

\* Lines 571-659 for the result of checkThresholds.
Checked(feedResults, previous, e, res) ==
    Detected(feedResults, previous, e, res,
             detectThresholdCrossing(previous[MM], feedResults[MM].jackpotAmount,
                                     res.threshold.amount),
             detectThresholdCrossing(previous[PB], feedResults[PB].jackpotAmount,
                                     res.threshold.amount))

scheduledBody(feedResults, previous, e) ==
    Checked(feedResults, previous, e,
            checkThresholds(feedResults[MM], feedResults[PB], e))

\* the lotteries a run handed a message for to sendEmail
Sent(o) == {o.sends[i].lotteryName : i \in 1..Len(o.sends)}

\* -------------------------------------------------------------------- state
VARIABLES
    env,            \* the bindings: JACKPOT_THRESHOLD, FROM_EMAIL, TO_EMAIL,
                    \* LOTTERY_STATE (TRUE when the namespace is bound)
    kv,             \* the LOTTERY_STATE namespace: key -> stored record
    pc,             \* position of the current run
    results,        \* lottery -> FeedResult, as the fetches complete
    prev,           \* lottery -> previous amount, as the reads complete
    outcome,        \* scheduledBody of the current run, once it has run
    pendingSends,   \* lotteries with a sendEmail call in flight
    pendingWrites,  \* kv.put calls in flight: [young, lottery, value]
    \* history, read by the properties only
    observe,        \* which history is kept: "none", "streak" or "store"
    notified,       \* lotteries notified since a run last saw their source
                    \* below the threshold
    lastRun,        \* amounts of the latest run that reached line 567, if it
                    \* stored them
    landed,         \* lotteries whose put of that run has completed
    readAfter,      \* lotteries the current run read after the put of the run
                    \* before it had completed
    sameAsLast,     \* the current run got the amounts of the run before it
    \* the harness for the pure functions
    call            \* [op, args, ret]: a function, its arguments and <<result>>

vars == <<env, kv, pc, results, prev, outcome, pendingSends, pendingWrites,
          observe, notified, lastRun, landed, readAfter, sameAsLast, call>>

machine == <<env, kv, pc, results, prev, outcome, pendingSends, pendingWrites,
             observe, notified, lastRun, landed, readAfter, sameAsLast>>

storeHistory == <<lastRun, landed, readAfter, sameAsLast>>

\* ------------------------------------------------------------------- inputs
Text1600 == <<"1", "6", "0", "0">>
NoText == <<Undefined>>          \* String(undefined)

Env(threshold, from, to, kvBound) ==
    [JACKPOT_THRESHOLD |-> threshold, FROM_EMAIL |-> from, TO_EMAIL |-> to,
     LOTTERY_STATE |-> kvBound]

Envs == {Env(Text1600, "from@test.com", "to@test.com", TRUE),
         Env(NoText, Undefined, "to@test.com", TRUE),
         Env(Text1600, "from@test.com", "to@test.com", FALSE)}

\* jackpots at the source, in millions
SourceAmounts == {900, 1600}
DrawingDate == "2025-12-26T00:00:00"

MegaFaults == {"none", "reject", "nofield"}
\* what the Mega Millions endpoint answers when the jackpot is src
MegaFetch(src, fault) ==
    CASE fault = "none" ->
           MegaResponse("data", "", src * DOLLARS_PER_MILLION, DrawingDate)
      [] fault = "reject" -> MegaResponse("reject", "Network error", NaN, DrawingDate)
      [] fault = "nofield" -> MegaResponse("data", "", NaN, DrawingDate)

PowerballFaults == {"none", "nomatch", "garbled"}
\* what powerball.com answers: "$1.60 Billion", "$900 Million", no figure at
\* all, or a figure without digits ("$. Million")
PowerballFetch(src, fault) ==
    CASE fault = "none" ->
           PowerballResponse("html", "",
               IF src >= BILLION_IN_MILLIONS
               THEN <<[num |-> BillionsToFixed2(src), unit |-> "Billion"]>>
               ELSE <<[num |-> ToFixed0(src), unit |-> "Million"]>>,
               "Sat, Dec 27, 2025")
      [] fault = "reject" -> PowerballResponse("reject", "Network error", <<>>, Undefined)
      [] fault = "nomatch" -> PowerballResponse("html", "", <<>>, Undefined)
      [] fault = "garbled" ->
           PowerballResponse("html", "", <<[num |-> <<".">>, unit |-> "Million"]>>,
                             "Sat, Dec 27, 2025")

NoOutcome == [aborted |-> FALSE, res |-> <<>>, crossing |-> EmptyMap,
              sends |-> <<>>, tracked |-> FALSE, stores |-> EmptyMap,
              puts |-> {}, log |-> {}]

\* --------------------------------------------------------------------- Init
NoCall == [op |-> "none", args |-> <<>>, ret |-> <<>>]

InitMachine ==
    /\ kv = EmptyMap
    /\ pc = "idle"
    /\ results = EmptyMap
    /\ prev = EmptyMap
    /\ outcome = NoOutcome
    /\ pendingSends = {}
    /\ pendingWrites = {}
    /\ notified = {}
    /\ lastRun = EmptyMap
    /\ landed = {}
    /\ readAfter = {}
    /\ sameAsLast = FALSE

InitRun == InitMachine /\ env \in Envs /\ call = NoCall

Init == InitRun /\ observe = "none"
InitStreak == InitRun /\ observe = "streak"
InitStore == InitRun /\ observe = "store"

\* ------------------------------------------------------------------ actions
\* The cron trigger fires: scheduled() starts and issues both fetches.
StartRun ==
    /\ pc = "idle"
    /\ pendingSends = {}
    /\ Cardinality({t \in pendingWrites : ~t.young}) <= MaxStalePuts
    /\ pc' = "fetching"
    /\ UNCHANGED <<call, env, kv, results, prev, outcome, pendingSends, pendingWrites,
                   observe, notified, storeHistory>>

\* A fetch completes.  A source below the threshold ends the streak.
Fetched(lottery, result, src) ==
    /\ results' = (lottery :> result) @@ results
    /\ notified' = IF observe = "streak" /\ src < ResolveThreshold(env)
                   THEN notified \ {lottery} ELSE notified
    /\ pc' = IF DOMAIN results' = Feeds THEN "reading" ELSE "fetching"
    /\ UNCHANGED <<call, env, kv, prev, outcome, pendingSends, pendingWrites,
                   observe, storeHistory>>

\* Variant: a request that failed is issued again while the other one is
\* still awaited.
FetchMegaRetrying ==
    /\ pc = "fetching"
    /\ IF MM \in DOMAIN results THEN TruthyStr(results[MM].error) ELSE TRUE
    /\ \E src \in SourceAmounts, fault \in MegaFaults :
           Fetched(MM, checkMegaMillions(MegaFetch(src, fault)), src)

FetchMega ==
    /\ pc = "fetching"
    /\ MM \notin DOMAIN results
    /\ \E src \in SourceAmounts, fault \in MegaFaults :
           Fetched(MM, checkMegaMillions(MegaFetch(src, fault)), src)

FetchPowerball ==
    /\ pc = "fetching"
    /\ PB \notin DOMAIN results
    /\ \E src \in SourceAmounts, fault \in PowerballFaults :
           Fetched(PB, checkPowerball(PowerballFetch(src, fault)), src)

\* Variant: the state reads are started together with the fetches.
ReadStateEarly(lottery) ==
    /\ pc \in {"fetching", "reading"}
    /\ lottery \notin DOMAIN prev
    /\ \E getRejects \in (IF env.LOTTERY_STATE THEN BOOLEAN ELSE {FALSE}) :
           prev' = (lottery :> getPreviousJackpot(env.LOTTERY_STATE, kv,
                                                  lottery, getRejects)) @@ prev
    /\ readAfter' = IF observe = "store" /\ lottery \in landed
                    THEN readAfter \cup {lottery} ELSE readAfter
    /\ pc' = IF pc = "fetching" THEN "fetching"
             ELSE IF DOMAIN prev' = Feeds THEN "processing" ELSE "reading"
    /\ UNCHANGED <<call, env, kv, results, outcome, pendingSends, pendingWrites,
                   observe, notified, lastRun, landed, sameAsLast>>

\* A state read completes; kv.get may reject when the namespace is bound.
ReadState(lottery) ==
    /\ pc = "reading"
    /\ lottery \notin DOMAIN prev
    /\ \E getRejects \in (IF env.LOTTERY_STATE THEN BOOLEAN ELSE {FALSE}) :
           prev' = (lottery :> getPreviousJackpot(env.LOTTERY_STATE, kv,
                                                  lottery, getRejects)) @@ prev
    /\ readAfter' = IF observe = "store" /\ lottery \in landed
                    THEN readAfter \cup {lottery} ELSE readAfter
    /\ pc' = IF DOMAIN prev' = Feeds THEN "processing" ELSE "reading"
    /\ UNCHANGED <<call, env, kv, results, outcome, pendingSends, pendingWrites,
                   observe, notified, lastRun, landed, sameAsLast>>

Older(tasks) == {[t EXCEPT !.young = FALSE] : t \in tasks}

\* The effect on the state of lines 567-659 with outcome o: the sends and
\* puts started are the youngest tasks.
Finish(o) ==
    /\ outcome' = o
    /\ pc' = IF o.aborted THEN "aborted" ELSE "done"
    /\ pendingSends' = pendingSends \cup Sent(o)
    /\ pendingWrites' = Older(pendingWrites)
           \cup {[young |-> TRUE, lottery |-> p.lottery, value |-> p.value] :
                    p \in o.puts}
    /\ notified' = IF observe = "streak" THEN notified \cup Sent(o)
                   ELSE notified
    /\ IF observe = "store"
       THEN /\ sameAsLast' =
                  /\ DOMAIN lastRun = Feeds
                  /\ \A f \in Feeds : results[f].jackpotAmount = lastRun[f]
            /\ lastRun' = o.stores
            /\ landed' = {}
       ELSE UNCHANGED <<sameAsLast, lastRun, landed>>

\* Lines 567-659: evaluate, detect, dispatch, persist and log.
Process ==
    /\ pc = "processing"
    /\ Finish(scheduledBody(results, prev, env))
    /\ UNCHANGED <<call, env, kv, results, prev, observe, readAfter>>

\* scheduled() returns (after the catch at line 661 when it aborted); what
\* the run held is dropped.
Return ==
    /\ pc \in {"done", "aborted"}
    /\ pc' = "idle"
    /\ results' = EmptyMap
    /\ prev' = EmptyMap
    /\ outcome' = NoOutcome
    /\ readAfter' = {}
    /\ sameAsLast' = FALSE
    /\ UNCHANGED <<call, env, kv, pendingSends, pendingWrites, observe, notified,
                   lastRun, landed>>

\* A send completes in the background; its result is logged and nothing else
\* depends on it.
SendComplete ==
    /\ pc = "idle"
    /\ \E t \in pendingSends, transport \in Transports :
        /\ sendEmail(transport).success \in BOOLEAN
        /\ pendingSends' = pendingSends \ {t}
    /\ UNCHANGED <<call, env, kv, pc, results, prev, outcome, pendingWrites,
                   observe, notified, storeHistory>>

\* Variant: both amounts live in one record, which every put replaces.
WriteCompleteSharedRecord ==
    /\ pc \in {"idle", "reading"}
    /\ \E t \in pendingWrites, putRejects \in BOOLEAN :
        /\ pendingWrites' = pendingWrites \ {t}
        /\ IF putRejects
           THEN UNCHANGED <<kv, landed>>
           ELSE /\ kv' = (t.lottery :> t.value)
                /\ IF observe = "store"
                   THEN landed' = IF t.young THEN landed \cup {t.lottery}
                                  ELSE landed
                   ELSE UNCHANGED landed
    /\ UNCHANGED <<call, env, pc, results, prev, outcome, pendingSends, observe,
                   notified, lastRun, readAfter, sameAsLast>>

\* A kv.put completes in the background: the key takes the value, or the put
\* rejects, which is logged and swallowed.
WriteComplete ==
    /\ pc \in {"idle", "reading"}
    /\ \E t \in pendingWrites, putRejects \in BOOLEAN :
        /\ pendingWrites' = pendingWrites \ {t}
        /\ IF ~PutSettled(env.LOTTERY_STATE, putRejects).written
           THEN UNCHANGED <<kv, landed>>
           ELSE /\ kv' = (t.lottery :> t.value) @@ kv
                /\ IF observe = "store"
                   THEN landed' = IF t.young THEN landed \cup {t.lottery}
                                  ELSE landed
                   ELSE UNCHANGED landed
    /\ UNCHANGED <<call, env, pc, results, prev, outcome, pendingSends, observe,
                   notified, lastRun, readAfter, sameAsLast>>

\* ------------------------------------------------ pure functions, applied
\* inputs of detectThresholdCrossing
DetectInputs == {NaN, -5, 0, 1499, 1500, 1501}

\* JACKPOT_THRESHOLD texts with the number each denotes, NaN when it denotes
\* none: unset, "", "abc", "NaN", "0", "-5", "1", "1500", "1600"
ThresholdCases ==
    {[text |-> NoText, number |-> NaN],
     [text |-> <<>>, number |-> NaN],
     [text |-> <<"a", "b", "c">>, number |-> NaN],
     [text |-> <<"N", "a", "N">>, number |-> NaN],
     [text |-> <<"0">>, number |-> 0],
     [text |-> <<"-", "5">>, number |-> -5],
     [text |-> <<"1">>, number |-> 1],
     [text |-> <<"1", "5", "0", "0">>, number |-> 1500],
     [text |-> Text1600, number |-> 1600],
     [text |-> <<"Infinity">>, number |-> Infinity]}
ThresholdTexts == {c.text : c \in ThresholdCases}

\* feed results handed to checkThresholds, well-formed or not
AnyFeedResults(lottery) ==
    {FeedResult(lottery, FormatJackpotDisplay(a), a, "Fri, Dec 26, 2025", e) :
        a \in {NaN, 0, 1400, 1500, 1600}, e \in {Undefined, "Network error"}}

\* one run as a function of what the sources answer, what the store returns
\* and the bindings: lines 556-659 without the timing
RunOnce(megaResponse, powerballResponse, previous, e) ==
    scheduledBody((MM :> checkMegaMillions(megaResponse))
                      @@ (PB :> checkPowerball(powerballResponse)),
                  previous, e)

PureSources == {1400, 1500, 1600}
PurePrevious == {0, 1400, 1600}

DetectCalls ==
    {[op |-> "detect", args |-> <<p, c, t>>, ret |-> <<>>] :
        p \in DetectInputs, c \in DetectInputs, t \in DetectInputs}

ThresholdCalls ==
    {[op |-> "checkThresholds",
      args |-> <<m, b, Env(t, "from@test.com", "to@test.com", TRUE)>>,
      ret |-> <<>>] :
        m \in AnyFeedResults(MM), b \in AnyFeedResults(PB), t \in ThresholdTexts}

RunCalls ==
    {[op |-> "run",
      args |-> <<MegaFetch(ms, mf), PowerballFetch(ps, pf),
                 (MM :> pm) @@ (PB :> pp),
                 Env(t, from, "to@test.com", TRUE)>>,
      ret |-> <<>>] :
        ms \in PureSources, mf \in MegaFaults, ps \in PureSources,
        pf \in PowerballFaults, pm \in PurePrevious, pp \in PurePrevious,
        t \in ThresholdTexts, from \in {"from@test.com", ""}}

\* texts found under a key: records this program wrote (1700, 0, null for
\* NaN), a JSON object without jackpotAmount, and a text that is not JSON
StoredTexts ==
    {[jackpotAmount |-> 1700], [jackpotAmount |-> 0], [jackpotAmount |-> JsonNull],
     [lastChecked |-> "2025-12-26T00:00:00.000Z"], [malformed |-> TRUE]}

\* getPreviousJackpot for the key 'Mega Millions' or 'Powerball', the latter
\* always missing
GetPreviousCalls ==
    {[op |-> "getPreviousJackpot", args |-> <<kvBound, store, f, getRejects>>,
      ret |-> <<>>] :
        kvBound \in BOOLEAN, getRejects \in BOOLEAN, f \in Feeds,
        store \in {MM :> t : t \in StoredTexts}}

StoreCalls ==
    {[op |-> "storePreviousJackpot", args |-> <<kvBound, f, a, putRejects>>,
      ret |-> <<>>] :
        kvBound \in BOOLEAN, f \in Feeds, a \in {NaN, 0, 1600},
        putRejects \in BOOLEAN}

SendCalls ==
    {[op |-> "sendEmail", args |-> <<transport>>, ret |-> <<>>] :
        transport \in Transports}

\* an adapter applied to what its source answers; the second argument names
\* what is wrong with the answer
MegaCalls ==
    {[op |-> "checkMegaMillions", args |-> <<MegaFetch(src, fault), fault>>,
      ret |-> <<>>] : src \in PureSources, fault \in MegaFaults}

\* pages that show the jackpot written another way: "$1.6 Billion",
\* "$1,600 Million" and "$900 million"
PowerballPages ==
    {PowerballResponse("html", "", <<[num |-> n, unit |-> u]>>, "Sat, Dec 27, 2025") :
        n \in {<<"1", ".", "6">>}, u \in {"Billion"}}
    \cup {PowerballResponse("html", "",
              <<[num |-> <<"1", ",", "6", "0", "0">>, unit |-> "Million"]>>,
              "Sat, Dec 27, 2025"),
          PowerballResponse("html", "",
              <<[num |-> <<"9", "0", "0">>, unit |-> "million"]>>,
              "Sat, Dec 27, 2025")}

PowerballCalls ==
    {[op |-> "checkPowerball", args |-> <<PowerballFetch(src, fault), fault>>,
      ret |-> <<>>] :
        src \in PureSources, fault \in PowerballFaults \cup {"reject"}}
    \cup {[op |-> "checkPowerball", args |-> <<page, "none">>, ret |-> <<>>] :
              page \in PowerballPages}

FetchCalls ==
    {[op |-> "fetch",
      args |-> <<MegaFetch(ms, mf), PowerballFetch(ps, pf), e>>,
      ret |-> <<>>] :
        ms \in PureSources, mf \in MegaFaults, ps \in PureSources,
        pf \in PowerballFaults \cup {"reject"},
        e \in {Env(NoText, Undefined, Undefined, FALSE),
               Env(Text1600, "from@test.com", "to@test.com", TRUE), NoEnv}}

\* arguments of detectThresholdCrossing of any kind: NaN, null for a value
\* that is not a number, +Infinity, and two finite amounts
AnyArguments == {NaN, JsonNull, Infinity, 0, 1600}

DetectAnyCalls ==
    {[op |-> "detectThresholdCrossing", args |-> <<p, c, t>>, ret |-> <<>>] :
        p \in AnyArguments, c \in AnyArguments, t \in AnyArguments}

BuildCalls ==
    {[op |-> "buildNotificationEmail", args |-> <<n, p, c, t, d>>, ret |-> <<>>] :
        n \in {MM, Undefined, "", NotAString},
        p \in {NaN, JsonNull, Infinity, 0},
        c \in {NaN, Infinity, 1600},
        t \in {JsonNull, Infinity, 1500},
        d \in {"Fri, Dec 26, 2025", Undefined, "", NotAString}}

\* amounts in millions handed to formatJackpotDisplay
FormatAmounts == {0, 7, 500, 999, 1000, 1010, 1700, 2350, 12340}

FormatCalls ==
    {[op |-> "formatJackpotDisplay", args |-> <<a>>, ret |-> <<>>] :
        a \in FormatAmounts}

\* env arguments of isEmailConfigured: none, objects with one address or
\* both missing, and objects whose addresses are set, empty or undefined
ConfiguredCalls ==
    {[op |-> "isEmailConfigured", args |-> <<e>>, ret |-> <<>>] :
        e \in {NoEnv, [JACKPOT_THRESHOLD |-> Text1600],
               [FROM_EMAIL |-> "from@test.com"], [TO_EMAIL |-> "to@test.com"]}
              \cup {[FROM_EMAIL |-> f, TO_EMAIL |-> t] :
                        f \in {"from@test.com", "", Undefined},
                        t \in {"to@test.com", "", Undefined}}}

\* amounts written and read back: not numbers at all, negative, zero, whole
StoredAmounts == {NaN, Infinity, -5, 0, 900, 1600}

StoreThenGetCalls ==
    {[op |-> "storeThenGet", args |-> <<store, f, a, g, b, putRejects>>,
      ret |-> <<>>] :
        store \in {EmptyMap, MM :> [jackpotAmount |-> 1700]},
        f \in Feeds, a \in StoredAmounts, g \in Feeds, b \in StoredAmounts,
        putRejects \in BOOLEAN}

InitPure ==
    /\ InitMachine
    /\ env = Env(NoText, Undefined, Undefined, FALSE)
    /\ observe = "none"
    /\ \/ call \in DetectCalls
       \/ call \in ThresholdCalls
       \/ call \in RunCalls
       \/ call \in GetPreviousCalls
       \/ call \in StoreCalls
       \/ call \in SendCalls
       \/ call \in MegaCalls
       \/ call \in PowerballCalls
       \/ call \in FetchCalls
       \/ call \in DetectAnyCalls
       \/ call \in BuildCalls
       \/ call \in FormatCalls
       \/ call \in ConfiguredCalls
       \/ call \in StoreThenGetCalls

Returned(v) == call' = [call EXCEPT !.ret = <<v>>]

CallDetect ==
    /\ call.op = "detect" /\ call.ret = <<>>
    /\ Returned(detectThresholdCrossing(call.args[1], call.args[2], call.args[3]))
    /\ UNCHANGED machine

CallCheckThresholds ==
    /\ call.op = "checkThresholds" /\ call.ret = <<>>
    /\ Returned(checkThresholds(call.args[1], call.args[2], call.args[3]))
    /\ UNCHANGED machine

CallRun ==
    /\ call.op = "run" /\ call.ret = <<>>
    /\ Returned(RunOnce(call.args[1], call.args[2], call.args[3], call.args[4]))
    /\ UNCHANGED machine

CallGetPreviousJackpot ==
    /\ call.op = "getPreviousJackpot" /\ call.ret = <<>>
    /\ Returned(getPreviousJackpot(call.args[1], call.args[2], call.args[3],
                                   call.args[4]))
    /\ UNCHANGED machine

CallStorePreviousJackpot ==
    /\ call.op = "storePreviousJackpot" /\ call.ret = <<>>
    /\ Returned(StoreCall(call.args[1], call.args[2], call.args[3], call.args[4]))
    /\ UNCHANGED machine

CallSendEmail ==
    /\ call.op = "sendEmail" /\ call.ret = <<>>
    /\ Returned(sendEmail(call.args[1]))
    /\ UNCHANGED machine

CallCheckMegaMillions ==
    /\ call.op = "checkMegaMillions" /\ call.ret = <<>>
    /\ Returned(checkMegaMillions(call.args[1]))
    /\ UNCHANGED machine

CallCheckPowerball ==
    /\ call.op = "checkPowerball" /\ call.ret = <<>>
    /\ Returned(checkPowerball(call.args[1]))
    /\ UNCHANGED machine

CallFetch ==
    /\ call.op = "fetch" /\ call.ret = <<>>
    /\ Returned(fetch(call.args[1], call.args[2], call.args[3]))
    /\ UNCHANGED machine

CallDetectAny ==
    /\ call.op = "detectThresholdCrossing" /\ call.ret = <<>>
    /\ Returned(detectThresholdCrossing(call.args[1], call.args[2], call.args[3]))
    /\ UNCHANGED machine

CallBuildNotificationEmail ==
    /\ call.op = "buildNotificationEmail" /\ call.ret = <<>>
    /\ Returned(buildNotificationEmail(call.args[1], call.args[2], call.args[3],
                                       call.args[4], call.args[5]))
    /\ UNCHANGED machine

CallFormatJackpotDisplay ==
    /\ call.op = "formatJackpotDisplay" /\ call.ret = <<>>
    /\ Returned(FormatJackpotDisplay(call.args[1]))
    /\ UNCHANGED machine

CallIsEmailConfigured ==
    /\ call.op = "isEmailConfigured" /\ call.ret = <<>>
    /\ Returned(isEmailConfigured(call.args[1]))
    /\ UNCHANGED machine

CallStoreThenGet ==
    /\ call.op = "storeThenGet" /\ call.ret = <<>>
    /\ Returned(StoreThenGet(call.args[1], call.args[2], call.args[3],
                             call.args[4], call.args[5], call.args[6]))
    /\ UNCHANGED machine

NextPure ==
    \/ CallDetect
    \/ CallCheckThresholds
    \/ CallRun
    \/ CallGetPreviousJackpot
    \/ CallStorePreviousJackpot
    \/ CallSendEmail
    \/ CallCheckMegaMillions
    \/ CallCheckPowerball
    \/ CallFetch
    \/ CallDetectAny
    \/ CallBuildNotificationEmail
    \/ CallFormatJackpotDisplay
    \/ CallIsEmailConfigured
    \/ CallStoreThenGet


\* what an on-demand request leaves behind for the properties: the status of
\* the response
Served(response) ==
    [op |-> "fetch", args |-> <<>>, ret |-> <<response.status>>]

\* Variant: the handler also persists the Mega Millions amount it fetched.
FetchRequestStoring ==
    /\ \E ms \in SourceAmounts, mf \in {"none"}, ps \in {900}, pf \in {"none"} :
         /\ call' = Served(fetch(MegaFetch(ms, mf), PowerballFetch(ps, pf), env))
         /\ kv' = (MM :> JsonStringify(checkMegaMillions(MegaFetch(ms, mf)).jackpotAmount))
                      @@ kv
    /\ UNCHANGED <<env, pc, results, prev, outcome, pendingSends, pendingWrites,
                   observe, notified, lastRun, landed, readAfter, sameAsLast>>

\* An on-demand request is served by fetch(), at any point between or
\* during scheduled runs, with whatever the sources answer at that moment.
FetchRequest ==
    /\ \E ms \in SourceAmounts, mf \in {"none"}, ps \in {900}, pf \in {"none"} :
         call' = Served(fetch(MegaFetch(ms, mf), PowerballFetch(ps, pf), env))
    /\ UNCHANGED machine

Next ==
    \/ StartRun
    \/ FetchMega
    \/ FetchPowerball
    \/ \E f \in Feeds : ReadState(f)
    \/ Process
    \/ Return
    \/ SendComplete
    \/ WriteComplete

Spec == Init /\ [][Next]_vars
SpecStreak == InitStreak /\ [][Next]_vars
SpecStore == InitStore /\ [][Next]_vars
SpecPure == InitPure /\ [][NextPure]_vars

\* scheduled runs with on-demand requests in between, for one set of bindings
InitServing ==
    /\ InitMachine
    /\ env = Env(Text1600, "from@test.com", "to@test.com", TRUE)
    /\ call = NoCall
    /\ observe = "none"

NextServing ==
    \/ Next
    \/ FetchRequest

SpecServing == InitServing /\ [][NextServing]_vars

\* ================================================================ properties
SendCount(o, lottery) ==
    Cardinality({i \in 1..Len(o.sends) : o.sends[i].lotteryName = lottery})
\* the handler has run lines 567-659, or has left them by the catch
RunEnded == pc \in {"done", "aborted"}

\* C1: for non-NaN previous p, current c and threshold t,
\* detectThresholdCrossing(p, c, t) returns crossed = (p < t and c >= t) and
\* echoes p, c and t.
C1_DetectRule ==
    (call.op = "detect" /\ call.ret # <<>>) =>
        LET p == call.args[1]
            c == call.args[2]
            t == call.args[3]
            r == call.ret[1]
        IN (p # NaN /\ c # NaN /\ t # NaN) =>
               /\ ~r.threw
               /\ r.crossed = (p < t /\ c >= t)
               /\ r.previousAmount = p
               /\ r.currentAmount = c
               /\ r.threshold = t

\* C1 witness: previous just below, current equal to the threshold: crossed.
C1_Witness ==
    /\ call.op = "detect"
    /\ call.ret # <<>>
    /\ call.args = <<1499, 1500, 1500>>
    /\ call.ret[1].crossed

\* C2: while the jackpot at the source stays at or above the threshold over
\* consecutive runs, at most one notification is dispatched for the feed,
\* whatever fetches, state reads or state writes fail: with the state store
\* bound, a run never dispatches for a feed that was notified since a run
\* last saw its source below the threshold.
C2_NoRenotification ==
    [][(pc = "processing" /\ env.LOTTERY_STATE)
           => notified \cap Sent(outcome') = {}]_vars

\* C3: at the end of a run, the number of requests dispatched for a feed is 1
\* if its crossing decision is crossed, its result has no error and the
\* addresses are configured, and 0 otherwise.
C3_OneRequestPerCrossing ==
    RunEnded =>
        \A f \in Feeds :
            SendCount(outcome, f) =
                IF /\ detectThresholdCrossing(prev[f], results[f].jackpotAmount,
                                              ResolveThreshold(env)).crossed
                   /\ results[f].error = Undefined
                   /\ isEmailConfigured(env)
                THEN 1 ELSE 0

\* C4: a run that got the same amounts as the run before it, with the same
\* threshold, and read each key after that run's put on it had completed,
\* dispatches nothing.
C4_IdempotentAfterWrites ==
    (pc = "done" /\ sameAsLast /\ readAfter = Feeds) => outcome.sends = <<>>

\* C5: a run that does not abort passes each feed's amount to
\* storePreviousJackpot, 0 for a feed that errored; and once the background
\* tasks have drained, both puts of the latest run having completed, each
\* key reads as that run's amount.
C5_PersistedOnceDrained ==
    /\ pc = "done" =>
           /\ DOMAIN outcome.stores = Feeds
           /\ \A f \in Feeds :
                  /\ outcome.stores[f] = results[f].jackpotAmount
                  /\ results[f].error # Undefined => outcome.stores[f] = 0
    /\ (pc = "idle" /\ DOMAIN lastRun = Feeds /\ pendingWrites = {}
            /\ landed = Feeds)
           => \A f \in Feeds : getPreviousJackpot(TRUE, kv, f, FALSE) = lastRun[f]

\* a feed whose fetch or parse failed: an error result, or an amount that
\* is not a number
FeedFailed(result) == result.error # Undefined \/ IsNaN(result.jackpotAmount)

\* C6: when one feed fails while the other crosses the threshold (addresses
\* configured), exactly the other feed's notification is dispatched and both
\* amounts are stored, the failed one as 0.
C6_FeedIsolation ==
    RunEnded =>
        \A f \in Feeds, g \in Feeds :
            (/\ f # g
             /\ FeedFailed(results[f])
             /\ results[g].error = Undefined
             /\ prev[g] < ResolveThreshold(env)
             /\ JsGe(results[g].jackpotAmount, ResolveThreshold(env))
             /\ isEmailConfigured(env))
                => /\ Sent(outcome) = {g}
                   /\ SendCount(outcome, g) = 1
                   /\ DOMAIN outcome.stores = Feeds
                   /\ outcome.stores[f] = 0
                   /\ outcome.stores[g] = results[g].jackpotAmount

\* C7: a feed result with the error field set has amount 0, its crossing
\* decision is computed on current amount 0 and is not crossed, and no
\* notification is dispatched for it.
C7_ErroredFeedNeverCrosses ==
    \A f \in DOMAIN results :
        results[f].error # Undefined =>
            /\ results[f].jackpotAmount = 0
            /\ f \in DOMAIN outcome.crossing =>
                   /\ ~outcome.crossing[f].crossed
                   /\ outcome.crossing[f].currentAmount = 0
            /\ f \notin Sent(outcome)

\* C7 witness: a completed run in which both feeds failed, read as 0.
C7_Witness ==
    /\ pc = "done"
    /\ \A f \in Feeds : results[f].error # Undefined /\ prev[f] = 0
    /\ DOMAIN outcome.crossing = Feeds

\* C8: checkThresholds flags a feed iff it has no error and its amount is at
\* least the threshold; exceeded iff some feed is flagged; exceedingLotteries
\* lists the flagged feeds, Mega Millions first; an errored result is never
\* flagged or listed.
C8_CheckThresholdsRule ==
    (call.op = "checkThresholds" /\ call.ret # <<>>) =>
        LET m == call.args[1]
            b == call.args[2]
            r == call.ret[1]
            t == r.threshold.amount
            Flag(x) == x.error = Undefined /\ x.jackpotAmount # NaN
                           /\ x.jackpotAmount >= t
        IN /\ r.megaMillions.exceedsThreshold = Flag(m)
           /\ r.powerball.exceedsThreshold = Flag(b)
           /\ r.threshold.exceeded = (Flag(m) \/ Flag(b))
           /\ r.threshold.exceedingLotteries =
                  (IF Flag(m) THEN <<MM>> ELSE <<>>)
                      \o (IF Flag(b) THEN <<PB>> ELSE <<>>)
           /\ m.error # Undefined => ~r.megaMillions.exceedsThreshold
           /\ b.error # Undefined => ~r.powerball.exceedsThreshold

\* C8 witness: Mega Millions carries an error with amount 1600, Powerball is
\* exactly at the threshold 1500: only Powerball is listed.
C8_Witness ==
    /\ call.op = "checkThresholds"
    /\ call.ret # <<>>
    /\ call.args[1].error # Undefined
    /\ call.args[1].jackpotAmount = 1600
    /\ call.args[2].jackpotAmount = 1500
    /\ call.ret[1].threshold.amount = 1500
    /\ call.ret[1].threshold.exceedingLotteries = <<PB>>

\* C9: the threshold of a run is 1500 when JACKPOT_THRESHOLD is unset, denotes
\* no number, or denotes a number <= 0, and the number it denotes otherwise;
\* the threshold info, both crossing decisions and every message carry that
\* one value; with "1600" a feed at 1600 exceeds and a feed at 1400 does not.
C9_ThresholdResolution ==
    (call.op = "run" /\ call.ret # <<>>) =>
        LET e == call.args[4]
            o == call.ret[1]
            c == CHOOSE k \in ThresholdCases : k.text = e.JACKPOT_THRESHOLD
            expected == IF c.number = NaN \/ c.number <= 0
                        THEN 1500 ELSE c.number
        IN /\ o.res.threshold.amount = expected
           /\ o.res.threshold.display = FormatJackpotDisplay(expected)
           /\ \A f \in DOMAIN o.crossing : o.crossing[f].threshold = expected
           /\ \A i \in 1..Len(o.sends) :
                  o.sends[i].threshold = FormatJackpotDisplay(expected)
           /\ c.number = 1600 =>
                  \A x \in {o.res.megaMillions, o.res.powerball} :
                      /\ x.jackpotAmount = 1600 => x.exceedsThreshold
                      /\ x.jackpotAmount = 1400 => ~x.exceedsThreshold

\* C9 witness: JACKPOT_THRESHOLD = "abc", both feeds cross the default 1500
\* and two messages carry it.
C9_Witness ==
    /\ call.op = "run"
    /\ call.ret # <<>>
    /\ call.args[4].JACKPOT_THRESHOLD = <<"a", "b", "c">>
    /\ call.ret[1].res.threshold.amount = 1500
    /\ Len(call.ret[1].sends) = 2
    /\ call.ret[1].sends[1].threshold = <<"$", "1", ".", "5", "0", " ", "Billion">>

\* C10: with FROM_EMAIL or TO_EMAIL missing, a run that detects a crossing
\* logs it, stores both amounts and hands nothing to the email transport.
C10_UnconfiguredStillPersists ==
    (RunEnded /\ ~isEmailConfigured(env)) =>
        \A f \in DOMAIN outcome.crossing :
            outcome.crossing[f].crossed =>
                /\ LogEntry("THRESHOLD CROSSED", f) \in outcome.log
                /\ DOMAIN outcome.stores = Feeds
                /\ \A g \in Feeds : outcome.stores[g] = results[g].jackpotAmount
                /\ outcome.sends = <<>>

\* C11: when an exception escapes inside scheduled(), the catch at line 661
\* logs it and the handler returns normally; that run has handed no message
\* to sendEmail and has issued no kv.put, so the tasks in flight are those of
\* earlier runs only.
C11_AbortLeavesNoTrace ==
    [][/\ (pc = "processing" /\ pc' = "aborted") =>
            /\ outcome'.sends = <<>>
            /\ outcome'.puts = {}
            /\ outcome'.stores = EmptyMap
            /\ LogEntry("Error checking jackpots", "") \in outcome'.log
            /\ pendingSends' = pendingSends
            /\ pendingWrites' = Older(pendingWrites)
       /\ (pc = "aborted") => (pc' = "idle")]_vars

\* an aborted run that had already found a crossing for Mega Millions, with
\* the notifier configured
C11_Witness ==
    /\ pc = "aborted"
    /\ isEmailConfigured(env)
    /\ MM \in DOMAIN outcome.crossing
    /\ outcome.crossing[MM].crossed

\* C12: a run that does not abort registers its sends and its two writes
\* with ctx.waitUntil and returns without awaiting them: when the handler is
\* done every send and every put it started is still in flight; and a run
\* that registered nothing started no send and no put.
C12_BackgroundTasksTracked ==
    /\ (pc = "done") =>
            /\ outcome.tracked
            /\ Sent(outcome) \subseteq pendingSends
            /\ \A p \in outcome.puts :
                   [young |-> TRUE, lottery |-> p.lottery, value |-> p.value]
                       \in pendingWrites
    /\ (RunEnded /\ ~outcome.tracked) =>
            (outcome.sends = <<>> /\ outcome.puts = {})

\* the handler is done with a message and both puts still in flight
C12_Witness ==
    /\ pc = "done"
    /\ outcome.sends # <<>>
    /\ Cardinality(outcome.puts) = 2
    /\ Cardinality({t \in pendingWrites : t.young}) = 2
    /\ pendingSends # {}

\* C13: getPreviousJackpot always resolves: to 0 for an unbound namespace,
\* a rejected kv.get, a missing key, a stored text that is not JSON and a
\* stored record without jackpotAmount, and to the stored amount for a
\* record that holds one.
C13_ReadResolves ==
    (call.op = "getPreviousJackpot" /\ call.ret # <<>>) =>
        LET kvBound == call.args[1]
            store == call.args[2]
            lotteryName == call.args[3]
            getRejects == call.args[4]
            readable == /\ kvBound /\ ~getRejects
                        /\ lotteryName \in DOMAIN store
                        /\ "jackpotAmount" \in DOMAIN store[lotteryName]
                        /\ store[lotteryName].jackpotAmount # JsonNull
        IN call.ret[1] = IF readable THEN store[lotteryName].jackpotAmount
                         ELSE 0

\* a record without jackpotAmount was read from a bound namespace
C13_Witness ==
    /\ call.op = "getPreviousJackpot" /\ call.ret = <<0>>
    /\ call.args[1] /\ ~call.args[4]
    /\ call.args[3] \in DOMAIN call.args[2]
    /\ "lastChecked" \in DOMAIN call.args[2][call.args[3]]

\* C14: the promise of storePreviousJackpot never rejects: with an unbound
\* namespace it issues no kv.put and does nothing, a rejected kv.put is
\* logged and swallowed, and a kv.put that completes writes the record.
C14_WriteNeverRejects ==
    (call.op = "storePreviousJackpot" /\ call.ret # <<>>) =>
        LET kvBound == call.args[1]
            putRejects == call.args[4]
            r == call.ret[1]
        IN /\ ~r.settled.rejects
           /\ ~kvBound => (r.puts = {} /\ ~r.settled.logged /\ ~r.settled.written)
           /\ (kvBound /\ putRejects) => (r.settled.logged /\ ~r.settled.written)
           /\ kvBound =>
                  r.puts = {[lottery |-> call.args[2],
                             value |-> JsonStringify(call.args[3])]}
           /\ (kvBound /\ ~putRejects) => (r.settled.written /\ ~r.settled.logged)

\* a kv.put on a bound namespace was rejected
C14_Witness ==
    /\ call.op = "storePreviousJackpot" /\ call.ret # <<>>
    /\ call.args[1] /\ call.args[4]
    /\ call.ret[1].settled.logged

\* C15: sendEmail never rejects: an OK response resolves to success without
\* an error field, and a non-OK response and a rejected transport call,
\* whatever the value it rejects with, resolve to a failure with an error
\* text.
C15_SendNeverRejects ==
    (call.op = "sendEmail" /\ call.ret # <<>>) =>
        /\ ~call.ret[1].rejects
        /\ (call.args[1] = "ok") =>
               (call.ret[1].success /\ call.ret[1].error = Undefined)
        /\ (call.args[1] # "ok") =>
               (~call.ret[1].success /\ call.ret[1].error # Undefined)

\* an adapter has returned
AdapterReturned ==
    call.op \in {"checkMegaMillions", "checkPowerball"} /\ call.ret # <<>>

\* C16: checkMegaMillions and checkPowerball resolve to a FeedResult whose
\* error field is set whenever the source failed: the request was rejected,
\* the response was malformed or the figure could not be parsed.
C16_FailureSetsError ==
    (AdapterReturned /\ call.args[2] # "none") =>
        call.ret[1].error # Undefined

\* C17: a FeedResult with the error field set has jackpotAmount 0 and the
\* display 'Error' or 'Not found'.
C17_ErrorResultShape ==
    (AdapterReturned /\ call.ret[1].error # Undefined) =>
        /\ call.ret[1].jackpotAmount = 0
        /\ call.ret[1].jackpot \in {<<"Error">>, <<"Not found">>}

\* checkPowerball found no figure in the page, and checkMegaMillions is
\* covered by the rejected request
C17_Witness ==
    /\ AdapterReturned
    /\ call.op = "checkPowerball"
    /\ call.args[2] = "nomatch"
    /\ call.ret[1].error = "Failed to parse jackpot from HTML"
    /\ call.ret[1].jackpot = <<"Not found">>

\* C18: the jackpotAmount of every FeedResult is a number that is not NaN
\* and not negative.
C18_AmountIsNonNegativeNumber ==
    AdapterReturned =>
        (~IsNaN(call.ret[1].jackpotAmount) /\ call.ret[1].jackpotAmount >= 0)

PutCount(o, lottery) == Cardinality({p \in o.puts : p.lottery = lottery})

\* C20: within one run nothing is retried: the result an adapter returned
\* and the amount a state read returned stay what they are until the handler
\* returns, failed or not; lines 567-659 start with one result and one
\* amount per feed; and the run hands at most one message per feed to
\* sendEmail and issues at most one kv.put per feed.
C20_NoRetry ==
    [][\A f \in Feeds :
          /\ (f \in DOMAIN results /\ pc' # "idle") =>
                 (f \in DOMAIN results' /\ results'[f] = results[f])
          /\ (f \in DOMAIN prev /\ pc' # "idle") =>
                 (f \in DOMAIN prev' /\ prev'[f] = prev[f])
          /\ (pc' = "processing") =>
                 (DOMAIN results' = Feeds /\ DOMAIN prev' = Feeds)
          /\ (pc' \in {"done", "aborted"}) =>
                 /\ SendCount(outcome', f) <= 1
                 /\ PutCount(outcome', f) <= 1
                 /\ Cardinality({t \in pendingWrites' :
                                    t.young /\ t.lottery = f}) <= 1]_vars

\* a run whose Mega Millions request failed went on to notify for Powerball
\* and to write both amounts
C20_Witness ==
    /\ pc = "done"
    /\ TruthyStr(results[MM].error)
    /\ SendCount(outcome, PB) = 1
    /\ PutCount(outcome, MM) = 1
    /\ PutCount(outcome, PB) = 1

\* x is a finite number
IsFinite(x) == IsNumber(x) /\ ~IsNaN(x) /\ x # Infinity

\* C21: detectThresholdCrossing throws whenever one of previousAmount,
\* currentAmount and thresholdMillions is not a number, is NaN or is not
\* finite.
C21_DetectRejectsNonFinite ==
    (call.op = "detectThresholdCrossing" /\ call.ret # <<>>) =>
        ((\E i \in 1..3 : ~IsFinite(call.args[i])) => call.ret[1].threw)

\* s is a string that is not empty
IsLabel(s) == s \notin {Undefined, "", NotAString}

\* C22: buildNotificationEmail throws when lotteryName or nextDrawing is
\* missing, empty or not a string, or when previousAmount, currentAmount or
\* threshold is not a finite number; otherwise it returns a message with the
\* feed label, the drawing label and the three amounts as formatted by
\* formatJackpotDisplay.
C22_BuildValidates ==
    (call.op = "buildNotificationEmail" /\ call.ret # <<>>) =>
        LET valid == /\ IsLabel(call.args[1]) /\ IsLabel(call.args[5])
                     /\ \A i \in 2..4 : IsFinite(call.args[i])
            r == call.ret[1]
        IN IF valid
           THEN /\ ~r.threw
                /\ r.lotteryName = call.args[1]
                /\ r.nextDrawing = call.args[5]
                /\ r.previous = FormatJackpotDisplay(call.args[2])
                /\ r.current = FormatJackpotDisplay(call.args[3])
                /\ r.threshold = FormatJackpotDisplay(call.args[4])
           ELSE r.threw

\* C23: every display of an amount is the output of formatJackpotDisplay on
\* that amount: the jackpot of a FeedResult without error (here for the
\* results whose amount is a number), the display of the threshold, and the
\* three figures of the email.
C23_SingleFormatter ==
    /\ (AdapterReturned /\ call.ret[1].error = Undefined
            /\ ~IsNaN(call.ret[1].jackpotAmount)) =>
           call.ret[1].jackpot = FormatJackpotDisplay(call.ret[1].jackpotAmount)
    /\ (call.op = "checkThresholds" /\ call.ret # <<>>) =>
           call.ret[1].threshold.display =
               FormatJackpotDisplay(call.ret[1].threshold.amount)
    /\ (call.op = "buildNotificationEmail" /\ call.ret # <<>>
            /\ ~call.ret[1].threw) =>
           /\ call.ret[1].previous = FormatJackpotDisplay(call.args[2])
           /\ call.ret[1].current = FormatJackpotDisplay(call.args[3])
           /\ call.ret[1].threshold = FormatJackpotDisplay(call.args[4])

\* the characters of text t from position i to position j are digits
AllDigits(t, i, j) == i <= j /\ \A k \in i..j : t[k] \in Digits

\* C24: formatJackpotDisplay renders an amount of 1000 or more as
\* "$<digits>.<two digits> Billion" and an amount below 1000 as
\* "$<digits> Million"; 1700 gives "$1.70 Billion", 500 "$500 Million" and
\* 1000 "$1.00 Billion".
C24_FormatRule ==
    (call.op = "formatJackpotDisplay" /\ call.ret # <<>>) =>
        LET a == call.args[1]
            t == call.ret[1]
            n == Len(t)
        IN /\ t[1] = "$" /\ t[n - 1] = " "
           /\ (a >= 1000) =>
                  /\ t[n] = "Billion"
                  /\ t[n - 4] = "."
                  /\ AllDigits(t, n - 3, n - 2)
                  /\ AllDigits(t, 2, n - 5)
           /\ (a < 1000) => (t[n] = "Million" /\ AllDigits(t, 2, n - 2))
           /\ (a = 1700) => t = <<"$", "1", ".", "7", "0", " ", "Billion">>
           /\ (a = 500) => t = <<"$", "5", "0", "0", " ", "Million">>
           /\ (a = 1000) => t = <<"$", "1", ".", "0", "0", " ", "Billion">>

\* the boundary amount was rendered
C24_Witness ==
    /\ call.op = "formatJackpotDisplay"
    /\ call.args = <<1000>>
    /\ call.ret = <<(<<"$", "1", ".", "0", "0", " ", "Billion">>)>>

\* C25: a run goes through its stages in order: a state read completes only
\* after both fetches have, lines 567-659 run only after both reads have, a
\* run that has handed a message to sendEmail or issued a kv.put has computed
\* both crossing decisions before, and the reads of a run all complete before
\* the run has issued anything, so that no read returns a value the same run
\* wrote.
C25_StageOrder ==
    [][/\ (prev' # prev /\ pc' # "idle") =>
            /\ pc = "reading"
            /\ DOMAIN results = Feeds
            /\ outcome = NoOutcome /\ outcome' = NoOutcome
       /\ (outcome' # outcome /\ pc' # "idle") =>
            /\ pc = "processing"
            /\ DOMAIN results = Feeds /\ DOMAIN prev = Feeds
            /\ (outcome'.sends # <<>> \/ outcome'.puts # {}) =>
                   DOMAIN outcome'.crossing = Feeds
       /\ (results' # results /\ pc' # "idle") =>
            (pc = "fetching" /\ prev = EmptyMap /\ outcome = NoOutcome)]_vars

\* a run compared against an amount that an earlier run had stored, notified
\* and issued its own puts
C25_Witness ==
    /\ pc = "done"
    /\ prev[PB] = 900
    /\ results[PB].jackpotAmount = 1600
    /\ outcome.crossing[PB].crossed
    /\ outcome.sends # <<>>
    /\ outcome.puts # {}

\* C26: when a run overlaps the run before it, reading a feed's key while
\* that run's kv.put for the key is still in flight and the key is still
\* empty, it does not notify again for a feed that was already notified
\* since its source was last seen below the threshold.
C26_OverlapNotifiesOnce ==
    [][(pc = "processing" /\ env.LOTTERY_STATE) =>
          \A f \in Feeds :
              (f \notin DOMAIN kv /\ \E t \in pendingWrites : t.lottery = f) =>
                  ~(f \in notified /\ f \in Sent(outcome'))]_vars

\* what the namespace holds under a key: <<>> when the key is missing
KeyValue(store, lottery) ==
    IF lottery \in DOMAIN store THEN <<store[lottery]>> ELSE <<>>

\* C27: the states of the two feeds are independent: a step that changes
\* what is stored for one feed, and a put that fails, leave what is stored
\* for the other feed as it was; whatever the reads returned, lines 567-659
\* start with an amount for both feeds; and a run that reaches the writes
\* with the namespace bound issues one kv.put for each feed.
C27_FeedStatesIndependent ==
    [][/\ \A f \in Feeds :
              (KeyValue(kv', f) # KeyValue(kv, f)) =>
                  \A g \in Feeds \ {f} : KeyValue(kv', g) = KeyValue(kv, g)
       /\ (pc' = "processing") => (DOMAIN prev' = Feeds)
       /\ (pc = "processing" /\ pc' = "done" /\ env.LOTTERY_STATE) =>
              \A f \in Feeds : PutCount(outcome', f) = 1]_vars

\* the put for Powerball has failed or is still in flight while the amount
\* of Mega Millions is stored, and a later put for Mega Millions is underway
C27_Witness ==
    /\ MM \in DOMAIN kv
    /\ PB \notin DOMAIN kv
    /\ \E t \in pendingWrites : t.lottery = MM /\ t.value # kv[MM]

\* C28: detection is one-directional: detectThresholdCrossing(p, c, t) has
\* crossed false whenever c <= p, and crossed true only when c > p.
C28_OneDirectional ==
    (call.op \in {"detect", "detectThresholdCrossing"} /\ call.ret # <<>>) =>
        LET p == call.args[1]
            c == call.args[2]
        IN /\ call.ret[1].crossed => JsGt(c, p)
           /\ (IsNumber(p) /\ IsNumber(c) /\ JsGe(p, c)) => ~call.ret[1].crossed

\* a move down through the threshold was judged
C28_Witness ==
    /\ call.op = "detect"
    /\ call.args = <<1501, 1499, 1500>>
    /\ call.ret # <<>>
    /\ ~call.ret[1].threw
    /\ ~call.ret[1].crossed

\* C29: isEmailConfigured(env) returns true exactly when env is an object
\* in which FROM_EMAIL and TO_EMAIL are both present and not empty, and
\* returns false, without throwing, when env is null or undefined or an
\* address is missing or empty.
C29_EmailConfigured ==
    (call.op = "isEmailConfigured" /\ call.ret # <<>>) =>
        LET e == call.args[1]
        IN call.ret[1] =
               /\ e # NoEnv
               /\ {"FROM_EMAIL", "TO_EMAIL"} \subseteq DOMAIN e
               /\ e.FROM_EMAIL \notin {Undefined, ""}
               /\ e.TO_EMAIL \notin {Undefined, ""}

\* the function was called without an env, and with one address only
C29_Witness ==
    /\ call.op = "isEmailConfigured"
    /\ call.ret = <<FALSE>>
    /\ call.args[1] \in {NoEnv, [FROM_EMAIL |-> "from@test.com"]}

\* C30: from an empty store, whatever runs came before (runs with failed
\* fetches and runs that aborted included), every amount a state read
\* returns is a number and not NaN, so is the amount a read of any key would
\* return from what is stored, and a run aborts only over a current amount,
\* never over the previous one.
C30_PreviousIsNumber ==
    /\ \A f \in DOMAIN prev : ~NotValidNumber(prev[f])
    /\ \A f \in Feeds :
           ~NotValidNumber(getPreviousJackpot(TRUE, kv, f, FALSE))
    /\ (pc = "aborted") =>
           \E f \in Feeds : NotValidNumber(results[f].jackpotAmount)

\* after a run stored an amount, a later run read it back and aborted over
\* the current amount of the other feed
C30_Witness ==
    /\ pc = "aborted"
    /\ MM \in DOMAIN kv
    /\ prev[MM] = kv[MM].jackpotAmount
    /\ prev[MM] = 1600
    /\ IsNaN(results[PB].jackpotAmount)

\* C31: whatever JACKPOT_THRESHOLD holds, the threshold checkThresholds
\* resolves is a number above 0 and not NaN; in a run no message fails to
\* build, and the run aborts only when the amount of a feed is not a valid
\* number, never over the threshold.
C31_ThresholdAlwaysValid ==
    /\ (call.op = "checkThresholds" /\ call.ret # <<>>) =>
           /\ ~NotValidNumber(call.ret[1].threshold.amount)
           /\ call.ret[1].threshold.amount > 0
    /\ (call.op = "run" /\ call.ret # <<>>) =>
           /\ ~NotValidNumber(call.ret[1].res.threshold.amount)
           /\ call.ret[1].res.threshold.amount > 0
           /\ \A f \in DOMAIN call.ret[1].crossing :
                  ~call.ret[1].crossing[f].threw
           /\ \A i \in 1..Len(call.ret[1].sends) : ~call.ret[1].sends[i].threw
           /\ call.ret[1].aborted =>
                  \/ NotValidNumber(call.ret[1].res.megaMillions.jackpotAmount)
                  \/ NotValidNumber(call.ret[1].res.powerball.jackpotAmount)

\* a run with JACKPOT_THRESHOLD = "-5" notified against the default
C31_Witness ==
    /\ call.op = "run"
    /\ call.ret # <<>>
    /\ call.args[4].JACKPOT_THRESHOLD = <<"-", "5">>
    /\ ~call.ret[1].aborted
    /\ call.ret[1].res.threshold.amount = DEFAULT_THRESHOLD_MILLIONS
    /\ call.ret[1].sends # <<>>

\* what checkThresholds reported for a feed in outcome o
Reported(o, lottery) ==
    IF lottery = MM THEN o.res.megaMillions ELSE o.res.powerball

\* the feeds listed in threshold.exceedingLotteries of outcome o
Listed(o) ==
    {o.res.threshold.exceedingLotteries[i] :
        i \in 1..Len(o.res.threshold.exceedingLotteries)}

\* C32: in a run, a feed whose crossing is detected and whose result has no
\* error, and so every feed a message is handed to sendEmail for, is flagged
\* exceedsThreshold and listed in threshold.exceedingLotteries by the
\* checkThresholds of that run.
C32_NotifiedFeedsExceed ==
    RunEnded =>
        /\ \A f \in DOMAIN outcome.crossing :
               (outcome.crossing[f].crossed /\ ~TruthyStr(results[f].error)) =>
                   (Reported(outcome, f).exceedsThreshold /\ f \in Listed(outcome))
        /\ \A f \in Sent(outcome) :
               Reported(outcome, f).exceedsThreshold /\ f \in Listed(outcome)

\* a message went out for Powerball, at the threshold exactly, while Mega
\* Millions is reported as not exceeding
C32_Witness ==
    /\ pc = "done"
    /\ Sent(outcome) = {PB}
    /\ results[PB].jackpotAmount = outcome.res.threshold.amount
    /\ Listed(outcome) = {PB}
    /\ ~outcome.res.megaMillions.exceedsThreshold

\* C33: serving an on-demand request changes nothing of the state store,
\* of the sends and puts in flight, or of the scheduled run underway.
C33_FetchHasNoEffect ==
    [][(call' # call) =>
          UNCHANGED <<kv, pendingSends, pendingWrites, pc, results, prev,
                      outcome>>]_vars

\* a request was served while a run was reading, with an amount stored and
\* a put of the run before still in flight
C33_Witness ==
    /\ call.op = "fetch"
    /\ call.ret = <<200>>
    /\ pc = "reading"
    /\ MM \in DOMAIN kv
    /\ pendingWrites # {}

\* C34: a finite amount stored under a key is the amount read back from that
\* key, whatever is written to the other key or fails to be written to this
\* one meanwhile; a later write to the key that goes through is read back
\* instead; 0 reads back as 0.
C34_RoundTrip ==
    (call.op = "storeThenGet" /\ call.ret # <<>> /\ IsFinite(call.args[3])) =>
        IF call.args[4] = call.args[2] /\ ~call.args[6]
        THEN IsFinite(call.args[5]) => call.ret[1] = call.args[5]
        ELSE call.ret[1] = call.args[3]

\* -5 was stored over 1700 and read back, 1600 having gone to the other key
C34_Witness ==
    /\ call.op = "storeThenGet"
    /\ call.args = <<MM :> [jackpotAmount |-> 1700], MM, -5, PB, 1600, FALSE>>
    /\ call.ret = <<-5>>

====
